---- MODULE Spec2Model ----
(***************************************************************************)
(* BookLogger metadata engine (src/app/metadata.py): search_aggregated     *)
(* fans a query out to Google Books and Open Library, scores every         *)
(* candidate, filters by MATCH_THRESHOLD and sorts by score.               *)
(*                                                                         *)
(* Text is a sequence of one-character tokens ("d", "U", " ", "-"); a      *)
(* non-ASCII character is a named token ("e_acute", "emdash").  Python's   *)
(* None is the one-token sequence NoneVal, which no text equals.  A JSON   *)
(* object is a record; a key the object lacks is missing from its DOMAIN.  *)
(***************************************************************************)
EXTENDS Integers, Sequences, FiniteSets, TLC

\* ------------------------------------------------------------------ text

NoneVal == <<"<None>">>

\* str(x): the text of x; str(None) is the four characters "None"
Str(x) == IF x = NoneVal THEN <<"N", "o", "n", "e">> ELSE x

\* Python truthiness of an optional text: None and "" are falsy
Truthy(x) == x # NoneVal /\ x # <<>>

Digits == {"0", "1", "2", "3", "4", "5", "6", "7", "8", "9"}

\* str.isdigit() holds of every Unicode digit, not of 0-9 alone: here also
\* of ARABIC-INDIC DIGIT THREE and SUPERSCRIPT TWO
DigitChars == Digits \cup {"arabic_3", "sup_2"}

LowerLetters ==
    {"a", "b", "c", "d", "e", "f", "g", "h", "i", "j", "k", "l", "m",
     "n", "o", "p", "q", "r", "s", "t", "u", "v", "w", "x", "y", "z"}

UpperLetters ==
    {"A", "B", "C", "D", "E", "F", "G", "H", "I", "J", "K", "L", "M",
     "N", "O", "P", "Q", "R", "S", "T", "U", "V", "W", "X", "Y", "Z"}

\* str.lower() on one ASCII character
LowerOf(c) ==
    CASE c = "A" -> "a" [] c = "B" -> "b" [] c = "C" -> "c" [] c = "D" -> "d"
      [] c = "E" -> "e" [] c = "F" -> "f" [] c = "G" -> "g" [] c = "H" -> "h"
      [] c = "I" -> "i" [] c = "J" -> "j" [] c = "K" -> "k" [] c = "L" -> "l"
      [] c = "M" -> "m" [] c = "N" -> "n" [] c = "O" -> "o" [] c = "P" -> "p"
      [] c = "Q" -> "q" [] c = "R" -> "r" [] c = "S" -> "s" [] c = "T" -> "t"
      [] c = "U" -> "u" [] c = "V" -> "v" [] c = "W" -> "w" [] c = "X" -> "x"
      [] c = "Y" -> "y" [] c = "Z" -> "z" [] OTHER -> c

\* c.isalnum() and c.isspace() on the ASCII characters that survive the
\* encode('ascii', 'ignore') of normalize_text
AlnumChars == Digits \cup LowerLetters \cup UpperLetters
IsAlnum(c) == c \in AlnumChars
IsSpace(c) == c \in {" ", "\t", "\n"}

\* unicodedata.normalize('NFKD', c).encode('ascii', 'ignore'): an accented
\* letter decomposes to its base letter plus a combining mark, which is
\* dropped; a ligature to its letters; other non-ASCII characters vanish.
AsciiOf(c) ==
    CASE c = "e_acute" -> <<"e">>
      [] c = "E_acute" -> <<"E">>
      [] c = "fi_ligature" -> <<"f", "i">>
      [] c = "emdash" -> <<>>
      [] c = "cjk" -> <<>>
      [] c = "arabic_3" -> <<>>
      [] c = "sup_2" -> <<"2">>
      [] OTHER -> <<c>>

RECURSIVE Flatten(_)
Flatten(ss) == IF ss = <<>> THEN <<>> ELSE Head(ss) \o Flatten(Tail(ss))

Range(s) == {s[i] : i \in 1..Len(s)}

\* sep.join(parts)
RECURSIVE Join(_, _)
Join(sep, parts) ==
    IF parts = <<>> THEN <<>>
    ELSE IF Len(parts) = 1 THEN Head(parts)
    ELSE Head(parts) \o sep \o Join(sep, Tail(parts))

\* the number of leading non-whitespace characters of s
RECURSIVE WordLen(_)
WordLen(s) ==
    IF s = <<>> \/ IsSpace(Head(s)) THEN 0 ELSE 1 + WordLen(Tail(s))

\* s.split(): the maximal runs of non-whitespace characters
RECURSIVE Split(_)
Split(s) ==
    IF s = <<>> THEN <<>>
    ELSE IF IsSpace(Head(s)) THEN Split(Tail(s))
    ELSE LET n == WordLen(s)
         IN  <<SubSeq(s, 1, n)>> \o Split(SubSeq(s, n + 1, Len(s)))

\* s.replace(c, ""): every occurrence of the character c removed
RemoveChar(s, c) == SelectSeq(s, LAMBDA x : x # c)

\* x.replace("-", "").replace(" ", "")
StripIsbn(s) == RemoveChar(RemoveChar(s, "-"), " ")

\* s.startswith(p)
StartsWith(s, p) == Len(p) <= Len(s) /\ SubSeq(s, 1, Len(p)) = p

\* p in s (substring)
Contains(s, p) ==
    \E i \in 0..(Len(s) - Len(p)) : SubSeq(s, i + 1, i + Len(p)) = p

Min(a, b) == IF a < b THEN a ELSE b
Max(a, b) == IF a > b THEN a ELSE b

\* dict.get(k, default)
Get(d, k, default) == IF k \in DOMAIN d THEN d[k] ELSE default

\* ------------------------------------------------------- configuration

MATCH_THRESHOLD == 40

\* ---------------------------------------------------- helper functions

is_isbn(query) ==
    IF ~Truthy(query) THEN FALSE
    ELSE LET clean == StripIsbn(query)
         IN  /\ clean # <<>>
             /\ \A i \in 1..Len(clean) : clean[i] \in DigitChars
             /\ Len(clean) \in {10, 13}

\* normalize_text without the final " ".join(cleaned.split())
normalize_no_collapse(text) ==
    IF ~Truthy(text) THEN <<>>
    ELSE LET clean_ascii == Flatten([i \in 1..Len(Str(text)) |-> AsciiOf(Str(text)[i])])
             lowered == [i \in 1..Len(clean_ascii) |-> LowerOf(clean_ascii[i])]
         IN  SelectSeq(lowered, LAMBDA c : IsAlnum(c) \/ IsSpace(c))

normalize_text(text) ==
    IF ~Truthy(text) THEN <<>>
    ELSE LET clean_ascii == Flatten([i \in 1..Len(Str(text)) |-> AsciiOf(Str(text)[i])])
             lowered == [i \in 1..Len(clean_ascii) |-> LowerOf(clean_ascii[i])]
             cleaned == SelectSeq(lowered, LAMBDA c : IsAlnum(c) \/ IsSpace(c))
         IN  Join(<<" ">>, Split(cleaned))


\* ------------------------------------------------------------- scoring
\* A book is the dict built by a provider: source, source_id, title,
\* author, year, cover, pages, summary, isbn, olid (genres and rating are
\* display-only and read by no scorer).  A cover is a sequence of URL
\* segments; summary is the length of the description text, the only
\* thing the scorer reads of it.

Unknown == <<"U", "n", "k", "n", "o", "w", "n">>

Placeholder == <<"/static/", "placeholder", ".png">>

\* "placeholder" in cover
HasPlaceholder(cover) == \E i \in 1..Len(cover) : cover[i] = "placeholder"

\* the elif chain with the unbounded prefix test ahead of the word-bounded
\* ones
TitleTierUnboundedFirst(t_norm, q_norm) ==
    IF t_norm = q_norm THEN 60
    ELSE IF StartsWith(t_norm, q_norm) \/ StartsWith(q_norm, t_norm) THEN 40
    ELSE IF StartsWith(t_norm, q_norm \o <<" ">>) THEN 55
    ELSE IF StartsWith(q_norm, t_norm \o <<" ">>) THEN 55
    ELSE IF Contains(t_norm, q_norm) THEN 20
    ELSE 0

\* --- 3. TITLE MATCHING: the elif chain
TitleTier(t_norm, q_norm) ==
    IF t_norm = q_norm THEN 60
    ELSE IF StartsWith(t_norm, q_norm \o <<" ">>) THEN 55
    ELSE IF StartsWith(q_norm, t_norm \o <<" ">>) THEN 55
    ELSE IF StartsWith(t_norm, q_norm) \/ StartsWith(q_norm, t_norm) THEN 40
    ELSE IF Contains(t_norm, q_norm) THEN 20
    ELSE 0

\* the author bonus with two independent ifs in place of the if/elif
AuthorBonusBothBranches(a_norm, q_norm) ==
    (IF a_norm # <<>> /\ Contains(q_norm, a_norm) THEN 30 ELSE 0)
        + (IF a_norm # <<>> /\ Contains(a_norm, q_norm) THEN 30 ELSE 0)

\* --- 4. AUTHOR MATCHING
AuthorBonus(a_norm, q_norm) ==
    IF a_norm # <<>> /\ Contains(q_norm, a_norm) THEN 30
    ELSE IF a_norm # <<>> /\ Contains(a_norm, q_norm) THEN 30
    ELSE 0

\* the external ISBN check comparing the texts as given, not stripped
OracleHitUnstripped(book, match_isbn) ==
    /\ Truthy(match_isbn)
    /\ Str(match_isbn) = Str(Get(book, "isbn", <<>>))

\* --- 1. the external ISBN check
OracleHit(book, match_isbn) ==
    /\ Truthy(match_isbn)
    /\ LET clean_target == StripIsbn(Str(match_isbn))
           book_isbn == StripIsbn(Str(Get(book, "isbn", <<>>)))
       IN  clean_target # <<>> /\ clean_target = book_isbn

\* the query-is-ISBN rule comparing the query as typed, hyphens included
QueryIsbnHitUnstripped(book, query) ==
    /\ is_isbn(query)
    /\ query = StripIsbn(Str(Get(book, "isbn", <<>>)))

\* --- 2. the query is itself an ISBN
QueryIsbnHit(book, query) ==
    /\ is_isbn(query)
    /\ StripIsbn(query) = StripIsbn(Str(Get(book, "isbn", <<>>)))

calculate_match_score(book, query, match_isbn) ==
    LET q_norm == normalize_text(query)
        t_norm == normalize_text(Get(book, "title", <<>>))
        a_norm == normalize_text(Get(book, "author", <<>>))
    IN  IF OracleHit(book, match_isbn) THEN 100
        ELSE IF QueryIsbnHit(book, query) THEN 100
        ELSE Min(TitleTier(t_norm, q_norm) + AuthorBonus(a_norm, q_norm), 100)

\* the content sum with len(summary) >= 50 for the long-summary bonus
ContentRawSummaryAtLeast50(book) ==
    LET cover == Get(book, "cover", NoneVal)
        summary == Get(book, "summary", 0)
        author == Get(book, "author", Unknown)
        clean_title == normalize_text(Get(book, "title", <<>>))
        clean_author == normalize_text(author)
        pages == Get(book, "pages", 0)
        visuals == IF Truthy(cover) /\ ~HasPlaceholder(cover) THEN 30 ELSE 0
        context == IF summary >= 50 THEN 30 ELSE IF summary = 0 THEN -10 ELSE 0
        basics ==
            IF /\ Len(clean_author) > 3
               /\ (Contains(clean_title, clean_author)
                     \/ Contains(clean_author, clean_title))
            THEN -40
            ELSE IF author # Unknown THEN 10 ELSE 0
        yearpts == IF Truthy(Get(book, "year", NoneVal)) THEN 10 ELSE 0
        pagepts == IF pages = 0 THEN -50 ELSE IF pages < 50 THEN -15 ELSE 20
        isbnpts == IF Truthy(Get(book, "isbn", NoneVal)) THEN 5 ELSE 0
    IN  visuals + context + basics + yearpts + pagepts + isbnpts

\* the content sum with the sign of the zero-page penalty flipped (+= 50)
ContentRawZeroPagesBonus(book) ==
    LET cover == Get(book, "cover", NoneVal)
        summary == Get(book, "summary", 0)
        author == Get(book, "author", Unknown)
        clean_title == normalize_text(Get(book, "title", <<>>))
        clean_author == normalize_text(author)
        pages == Get(book, "pages", 0)
        visuals == IF Truthy(cover) /\ ~HasPlaceholder(cover) THEN 30 ELSE 0
        context == IF summary > 50 THEN 30 ELSE IF summary = 0 THEN -10 ELSE 0
        basics ==
            IF /\ Len(clean_author) > 3
               /\ (Contains(clean_title, clean_author)
                     \/ Contains(clean_author, clean_title))
            THEN -40
            ELSE IF author # Unknown THEN 10 ELSE 0
        yearpts == IF Truthy(Get(book, "year", NoneVal)) THEN 10 ELSE 0
        pagepts == IF pages = 0 THEN 50 ELSE IF pages < 50 THEN -15 ELSE 20
        isbnpts == IF Truthy(Get(book, "isbn", NoneVal)) THEN 5 ELSE 0
    IN  visuals + context + basics + yearpts + pagepts + isbnpts

\* the signed sum of calculate_content_score before the final clamp
ContentRaw(book) ==
    LET cover == Get(book, "cover", NoneVal)
        summary == Get(book, "summary", 0)
        author == Get(book, "author", Unknown)
        clean_title == normalize_text(Get(book, "title", <<>>))
        clean_author == normalize_text(author)
        pages == Get(book, "pages", 0)
        visuals == IF Truthy(cover) /\ ~HasPlaceholder(cover) THEN 30 ELSE 0
        context == IF summary > 50 THEN 30 ELSE IF summary = 0 THEN -10 ELSE 0
        basics ==
            IF /\ Len(clean_author) > 3
               /\ (Contains(clean_title, clean_author)
                     \/ Contains(clean_author, clean_title))
            THEN -40
            ELSE IF author # Unknown THEN 10 ELSE 0
        yearpts == IF Truthy(Get(book, "year", NoneVal)) THEN 10 ELSE 0
        pagepts == IF pages = 0 THEN -50 ELSE IF pages < 50 THEN -15 ELSE 20
        isbnpts == IF Truthy(Get(book, "isbn", NoneVal)) THEN 5 ELSE 0
    IN  visuals + context + basics + yearpts + pagepts + isbnpts

\* calculate_content_score without the upper clamp
content_score_no_ceiling(book) == Max(0, ContentRaw(book))

\* calculate_content_score without the lower clamp
content_score_no_floor(book) == Min(ContentRaw(book), 100)

calculate_content_score(book) == Max(0, Min(ContentRaw(book), 100))

\* --- CALCULATE SCORES --- / --- UI OUTPUTS ---: the four score keys that
\* both providers add to a book
Scored(book, query, match_isbn) ==
    LET raw_match == calculate_match_score(book, query, match_isbn)
        raw_content == calculate_content_score(book)
        final_score == raw_match + raw_content
    IN  [match_score |-> raw_match,
         content_score |-> raw_content,
         rank_score |-> final_score,
         score |-> final_score] @@ book

\* ------------------------------------------------------ the environment
\* What the two catalogues can answer.  A catalogue lists its records in
\* its own relevance order; an answer holds at most MaxItems of them.

MaxItems == 2

FrankHerbert == <<"F", "r", "a", "n", "k", " ", "H", "e", "r", "b", "e", "r", "t">>
Isbn13 == <<"9", "7", "8", "0", "4", "4", "1", "0", "1", "3", "5", "9", "3">>
Isbn13Hyphens == <<"9", "7", "8", "-", "0", "-", "4", "4", "1", "-", "0", "1", "3", "5", "9", "-", "3">>

\* "Dune Messiah": no cover, no description, no page count, an ISBN_13
\* entry whose identifier is the empty string
gMessiah ==
    [id |-> <<"vol-messiah">>,
     volumeInfo |->
        [title |-> <<"D", "u", "n", "e", " ", "M", "e", "s", "s", "i", "a", "h">>,
         authors |-> <<FrankHerbert>>,
         publishedDate |-> <<"1", "9", "6", "9", "-", "1", "0">>,
         industryIdentifiers |-> <<[type |-> "ISBN_13", identifier |-> <<>>]>>]]

\* an item without "id", whose identifier entry has no "type"
gBad ==
    [volumeInfo |->
        [title |-> <<"D", "u", "n", "e">>,
         industryIdentifiers |-> <<[identifier |-> Isbn13]>>]]

\* "Dune", every field populated
gDune ==
    [id |-> <<"vol-dune">>,
     volumeInfo |->
        [title |-> <<"D", "u", "n", "e">>,
         authors |-> <<FrankHerbert>>,
         publishedDate |-> <<"1", "9", "6", "5", "-", "0", "8", "-", "0", "1">>,
         imageLinks |-> [thumbnail |-> <<"http://", "books.google.com/content?id=dune", "&edge=curl", "&", "zoom=1">>],
         pageCount |-> 412,
         description |-> 200,
         industryIdentifiers |->
            <<[type |-> "ISBN_10", identifier |-> <<"0", "4", "4", "1", "0", "1", "3", "5", "9", "7">>],
              [type |-> "ISBN_13", identifier |-> Isbn13]>>]]

\* an accented "Dune" with only the small thumbnail, a short description,
\* no date and two ISBN_13 entries
gTie ==
    [id |-> <<"vol-dune-fr">>,
     volumeInfo |->
        [title |-> <<"D", "u", "n", "e_acute">>,
         authors |-> <<FrankHerbert>>,
         imageLinks |-> [smallThumbnail |-> <<"http://", "books.google.com/content?id=fr", "&", "zoom=5">>],
         pageCount |-> 300,
         description |-> 20,
         industryIdentifiers |->
            <<[type |-> "ISBN_13", identifier |-> Isbn13],
              [type |-> "ISBN_13", identifier |-> <<"9", "7", "8", "2", "2", "2", "1", "2", "5", "2", "0", "5", "5">>]>>]]

GoogleCatalogue == <<gMessiah, gBad, gDune, gTie>>

\* "Cooking" with no author and no page count, whose ISBN is the
\* hyphenated Isbn13
oCooking ==
    [key |-> <<"/works/", "OL1W">>,
     title |-> <<"C", "o", "o", "k", "i", "n", "g">>,
     cover_i |-> 7,
     first_publish_year |-> 1999,
     isbn |-> <<Isbn13Hyphens>>]

oDune ==
    [key |-> <<"/works/", "OL2W">>,
     title |-> <<"D", "U", "N", "E">>,
     author_name |-> <<FrankHerbert, <<"B">>, <<"C">>>>,
     cover_i |-> 12,
     first_publish_year |-> 1965,
     number_of_pages_median |-> 412,
     isbn |-> <<Isbn13, <<"0", "4", "4", "1", "0", "1", "3", "5", "9", "7">>>>]

\* a doc whose isbn list is empty
oBad ==
    [key |-> <<"/works/", "OL3W">>,
     title |-> <<"D", "u", "n", "e">>,
     isbn |-> <<>>]

oDune2 ==
    [key |-> <<"/works/", "OL4W">>,
     title |-> <<"D", "u", "n", "e", "!">>,
     author_name |-> <<FrankHerbert>>,
     cover_i |-> 13,
     first_publish_year |-> 1984,
     number_of_pages_median |-> 500,
     isbn |-> <<<<"9", "7", "8", "0", "3", "4", "0", "9", "6", "0", "1", "9", "6">>>>]

OpenLibraryCatalogue == <<oCooking, oDune, oBad, oDune2>>

\* the records of a catalogue picked by the index set S, in catalogue order
RECURSIVE Pick(_, _, _)
Pick(cat, S, i) ==
    IF i > Len(cat) THEN <<>>
    ELSE (IF i \in S THEN <<cat[i]>> ELSE <<>>) \o Pick(cat, S, i + 1)

Answers(cat) ==
    {Pick(cat, S, 1) : S \in {X \in SUBSET (1..Len(cat)) : Cardinality(X) <= MaxItems}}

\* a request that raised, a non-200 status, a 200 whose body is not JSON
Failures ==
    {[exc |-> TRUE],
     [exc |-> FALSE, status |-> 500],
     [exc |-> FALSE, status |-> 200, json |-> FALSE]}

Ok(data) == [exc |-> FALSE, status |-> 200, json |-> TRUE, data |-> data]

\* an answer that lists one volume twice
RepeatedAnswer == <<gDune, gDune>>

GoogleResponses ==
    Failures \cup {Ok([totalItems |-> 0])}
        \cup {Ok([totalItems |-> Len(a), items |-> a]) :
                a \in Answers(GoogleCatalogue) \cup {RepeatedAnswer}}

OpenLibraryResponses ==
    Failures \cup {Ok([numFound |-> 0])}
        \cup {Ok([numFound |-> Len(a), docs |-> a]) : a \in Answers(OpenLibraryCatalogue)}

Queries == {<<"D", "u", "n", "e">>, <<"9", "7", "8", "-", "0", "4", "4", "1", "0", "1", "3", "5", "9", "3">>}

MatchIsbns == {NoneVal, Isbn13Hyphens, <<"-">>}

\* ----------------------------------------------------------- providers
\* A response is a record: [exc |-> TRUE] when the request raised (network
\* error, timeout); otherwise it has a status; a 200 response has json
\* (whether the body parses) and, when it parses, data (the JSON object).

IsFailure(resp) == resp.exc \/ resp.status # 200

\* s.replace(old, new) on URL segments; new = "" removes the segment
ReplaceSeg(s, old, new) ==
    LET swapped == [i \in 1..Len(s) |-> IF s[i] = old THEN new ELSE s[i]]
    IN  SelectSeq(swapped, LAMBDA x : x # "")

\* text[:4]
First4(text) == SubSeq(text, 1, Min(4, Len(text)))

\* str(n) for a JSON integer n >= 0
DigitOf(d) ==
    CASE d = 0 -> "0" [] d = 1 -> "1" [] d = 2 -> "2" [] d = 3 -> "3"
      [] d = 4 -> "4" [] d = 5 -> "5" [] d = 6 -> "6" [] d = 7 -> "7"
      [] d = 8 -> "8" [] OTHER -> "9"

RECURSIVE IntStr(_)
IntStr(n) == IF n < 10 THEN <<DigitOf(n)>> ELSE IntStr(n \div 10) \o <<DigitOf(n % 10)>>

\* the industryIdentifiers loop: every entry's "type" is read (KeyError
\* when it is missing), and each ISBN_13 entry overwrites isbn
RECURSIVE GoogleIsbn(_, _)
GoogleIsbn(idents, isbn) ==
    IF idents = <<>> THEN [ok |-> TRUE, isbn |-> isbn]
    ELSE LET ident == Head(idents)
         IN  IF "type" \notin DOMAIN ident THEN [ok |-> FALSE, isbn |-> isbn]
             ELSE IF ident.type = "ISBN_13"
             THEN IF "identifier" \notin DOMAIN ident
                  THEN [ok |-> FALSE, isbn |-> isbn]
                  ELSE GoogleIsbn(Tail(idents), ident.identifier)
             ELSE GoogleIsbn(Tail(idents), isbn)

\* the cover of a Google volume
GoogleCover(vol) ==
    LET image_links == Get(vol, "imageLinks", [none |-> 0])
        thumb == Get(image_links, "thumbnail", NoneVal)
        raw_cover == IF Truthy(thumb) THEN thumb
                     ELSE Get(image_links, "smallThumbnail", <<>>)
        cover == ReplaceSeg(ReplaceSeg(ReplaceSeg(raw_cover,
                     "http://", "https://"), "&edge=curl", ""), "zoom=1", "zoom=0")
    IN  IF cover = <<>> THEN Placeholder ELSE cover

\* the book dict of one Google item, scored; ok is FALSE when building it
\* raises (item["id"], ident["type"], ident["identifier"])
GoogleBook(item, query, match_isbn) ==
    LET vol == Get(item, "volumeInfo", [none |-> 0])
        got == GoogleIsbn(Get(vol, "industryIdentifiers", <<>>), NoneVal)
    IN  IF "id" \notin DOMAIN item \/ ~got.ok THEN [ok |-> FALSE]
        ELSE [ok |-> TRUE,
              book |-> Scored(
                  [source |-> "Google",
                   source_id |-> item.id,
                   title |-> Get(vol, "title", Unknown),
                   author |-> Join(<<",", " ">>, Get(vol, "authors", <<Unknown>>)),
                   year |-> First4(Get(vol, "publishedDate", <<>>)),
                   cover |-> GoogleCover(vol),
                   pages |-> Get(vol, "pageCount", 0),
                   summary |-> Get(vol, "description", 0),
                   isbn |-> got.isbn,
                   olid |-> NoneVal],
                  query, match_isbn)]

\* GoogleBook tabulated over the environment, so that a record is built and
\* scored once and not once per state
GoogleBookOf ==
    [item \in Range(GoogleCatalogue), q \in Queries, m \in MatchIsbns |->
        GoogleBook(item, q, m)]

\* the loop body without the seen_ids test
GoogleItemStepNoDedup(item, acc, query, match_isbn) ==
    IF "id" \notin DOMAIN item
    THEN [ok |-> FALSE, seen_ids |-> acc.seen_ids, results |-> acc.results]
    ELSE [ok |-> GoogleBookOf[item, query, match_isbn].ok,
          seen_ids |-> acc.seen_ids \cup {item.id},
          results |-> IF GoogleBookOf[item, query, match_isbn].ok
                      THEN Append(acc.results, GoogleBookOf[item, query, match_isbn].book)
                      ELSE acc.results]

\* one pass of the loop over data["items"]: item["id"] (KeyError when it
\* is missing), the dedup on seen_ids, then build, score and append
GoogleItemStep(item, acc, query, match_isbn) ==
    IF "id" \notin DOMAIN item
    THEN [ok |-> FALSE, seen_ids |-> acc.seen_ids, results |-> acc.results]
    ELSE IF item.id \in acc.seen_ids THEN acc
    ELSE [ok |-> GoogleBookOf[item, query, match_isbn].ok,
          seen_ids |-> acc.seen_ids \cup {item.id},
          results |-> IF GoogleBookOf[item, query, match_isbn].ok
                      THEN Append(acc.results, GoogleBookOf[item, query, match_isbn].book)
                      ELSE acc.results]

\* for item in data["items"]: the loop ends at the first item that raises
RECURSIVE GoogleItemLoop(_, _, _, _)
GoogleItemLoop(items, acc, query, match_isbn) ==
    IF items = <<>> \/ ~acc.ok THEN acc
    ELSE GoogleItemLoop(Tail(items),
                        GoogleItemStep(Head(items), acc, query, match_isbn),
                        query, match_isbn)

\* search_google's gather without return_exceptions=True: a request that
\* raised raises out of search_google
GoogleResponseStepRaising(resp, acc, query, match_isbn) ==
    IF resp.exc
    THEN [ok |-> FALSE, seen_ids |-> acc.seen_ids, results |-> acc.results]
    ELSE IF resp.status # 200 THEN acc
    ELSE IF ~resp.json
    THEN [ok |-> FALSE, seen_ids |-> acc.seen_ids, results |-> acc.results]
    ELSE IF "items" \notin DOMAIN resp.data THEN acc
    ELSE GoogleItemLoop(resp.data.items, acc, query, match_isbn)

\* one pass of the loop over responses: skip a failure, parse the body
\* (resp.json() raises on a body that is not JSON), skip a body without
\* "items", walk the items
GoogleResponseStep(resp, acc, query, match_isbn) ==
    IF IsFailure(resp) THEN acc
    ELSE IF ~resp.json
    THEN [ok |-> FALSE, seen_ids |-> acc.seen_ids, results |-> acc.results]
    ELSE IF "items" \notin DOMAIN resp.data THEN acc
    ELSE GoogleItemLoop(resp.data.items, acc, query, match_isbn)

\* for resp in responses.  Nothing here is inside a try: an exception
\* leaves search_google
RECURSIVE GoogleResponseLoop(_, _, _, _)
GoogleResponseLoop(responses, acc, query, match_isbn) ==
    IF responses = <<>> \/ ~acc.ok THEN acc
    ELSE GoogleResponseLoop(Tail(responses),
                            GoogleResponseStep(Head(responses), acc, query, match_isbn),
                            query, match_isbn)

\* search_google after its gather: ok is FALSE when it raises
search_google(responses, query, match_isbn) ==
    GoogleResponseLoop(responses, [ok |-> TRUE, seen_ids |-> {}, results |-> <<>>],
                       query, match_isbn)

\* the book dict of one Open Library doc, scored; ok is FALSE when building
\* it raises (item.get("isbn", [None])[0] on an empty list)
OpenLibraryBook(item, query, match_isbn) ==
    LET cover_id == Get(item, "cover_i", 0)
        cover == IF cover_id # 0
                 THEN <<"https://", "covers.openlibrary.org/b/id/">> \o IntStr(cover_id)
                          \o <<"-M.jpg">>
                 ELSE Placeholder
        isbns == Get(item, "isbn", <<NoneVal>>)
        author == Join(<<",", " ">>, SubSeq(Get(item, "author_name", <<Unknown>>), 1,
                         Min(2, Len(Get(item, "author_name", <<Unknown>>)))))
        key == ReplaceSeg(Get(item, "key", <<>>), "/works/", "")
    IN  IF isbns = <<>> THEN [ok |-> FALSE]
        ELSE [ok |-> TRUE,
              book |-> Scored(
                  [source |-> "OpenLibrary",
                   source_id |-> key,
                   title |-> Get(item, "title", Unknown),
                   author |-> author,
                   year |-> IF "first_publish_year" \in DOMAIN item
                            THEN IntStr(item.first_publish_year) ELSE <<>>,
                   cover |-> cover,
                   pages |-> Get(item, "number_of_pages_median", 0),
                   summary |-> 0,
                   isbn |-> Head(isbns),
                   olid |-> key],
                  query, match_isbn)]

\* OpenLibraryBook tabulated over the environment
OpenLibraryBookOf ==
    [item \in Range(OpenLibraryCatalogue), q \in Queries, m \in MatchIsbns |->
        OpenLibraryBook(item, q, m)]

\* for item in data["docs"]: the except clause ends the loop at the first
\* item that raises and keeps what results already holds
RECURSIVE OpenLibraryItemLoop(_, _, _, _)
OpenLibraryItemLoop(items, results, query, match_isbn) ==
    IF items = <<>> \/ ~OpenLibraryBookOf[Head(items), query, match_isbn].ok
    THEN results
    ELSE OpenLibraryItemLoop(Tail(items),
             Append(results, OpenLibraryBookOf[Head(items), query, match_isbn].book),
             query, match_isbn)

\* search_open_library after its request: every exception is caught
search_open_library(resp, query, match_isbn) ==
    IF resp.exc THEN <<>>
    ELSE IF resp.status # 200 THEN <<>>
    ELSE IF ~resp.json THEN <<>>
    ELSE IF "docs" \notin DOMAIN resp.data THEN <<>>
    ELSE OpenLibraryItemLoop(resp.data.docs, <<>>, query, match_isbn)


\* ---------------------------------------------------------- aggregator

\* the Google request expressions of one search
strategies(query) ==
    IF is_isbn(query) THEN <<<<"isbn:">> \o StripIsbn(query)>>
    ELSE <<query, <<"intitle:">> \o query>>

\* the request slots: one per Google strategy, in strategy order, and the
\* one Open Library request
GoogleSlotNames == <<"g1", "g2">>
GoogleSlots(query) == SubSeq(GoogleSlotNames, 1, Len(strategies(query)))

\* a gather that yields the results in completion order
gather_completion_order(slots, byslot, order) ==
    LET mine == SelectSeq(order, LAMBDA s : s \in Range(slots))
    IN  [i \in 1..Len(mine) |-> byslot[mine[i]]]

\* asyncio.gather: the results in the order of the awaitables passed,
\* whatever the order they completed in
gather(slots, byslot, order) == [i \in 1..Len(slots) |-> byslot[slots[i]]]

\* a filter on the rank score instead of the match score
filter_on_rank(combined) ==
    SelectSeq(combined, LAMBDA b : b.rank_score >= MATCH_THRESHOLD)

\* a filter whose comparison is inverted
filter_inverted(combined) ==
    SelectSeq(combined, LAMBDA b : b.match_score < MATCH_THRESHOLD)

\* a filter that also drops the candidates whose content score is 0
filter_drops_empty_content(combined) ==
    SelectSeq(combined, LAMBDA b : b.match_score >= MATCH_THRESHOLD /\ b.content_score > 0)

\* 1. FILTER
filter_matches(combined) ==
    SelectSeq(combined, LAMBDA b : b.match_score >= MATCH_THRESHOLD)

\* list.sort(key=score, reverse=True): descending, and stable (elements of
\* equal score keep their order): x goes behind every element whose score
\* is at least its own
InsertDesc(sorted, x) ==
    LET n == Cardinality({i \in 1..Len(sorted) : sorted[i].score >= x.score})
    IN  SubSeq(sorted, 1, n) \o <<x>> \o SubSeq(sorted, n + 1, Len(sorted))

RECURSIVE SortFrom(_, _)
SortFrom(sorted, rest) ==
    IF rest = <<>> THEN sorted
    ELSE SortFrom(InsertDesc(sorted, Head(rest)), Tail(rest))

\* a sort without reverse=True: ascending
sort_ascending(filtered) ==
    LET desc == SortFrom(<<>>, filtered)
    IN  [i \in 1..Len(desc) |-> desc[Len(desc) + 1 - i]]

\* sorted(...)[::-1]: descending, but elements of equal score end up in
\* reverse order
sort_reversing_ties(filtered) ==
    SortFrom(<<>>, [i \in 1..Len(filtered) |-> filtered[Len(filtered) + 1 - i]])

\* 2. SORT
sort_by_score(filtered) == SortFrom(<<>>, filtered)


\* --------------------------------------------------------------- state

VARIABLES
    arg_query,        \* search_aggregated's query argument
    arg_match_isbn,   \* and its match_isbn argument
    pc,           \* "start", "gathering" (at the await of line 256), "done"
    inflight,     \* the request slots whose client.get has not completed
    resp,         \* slot -> the response its client.get completed with
    completed,    \* the slots in the order their requests completed
    g_state,      \* search_google: "waiting", "returned" or "raised"
    g_results,
    ol_state,     \* search_open_library: "waiting" or "returned"
    ol_results,
    combined,     \* g_results + ol_results
    outcome,      \* search_aggregated: "pending", "returned" or "raised"
    result,       \* the list it returned
    call,         \* a helper or scorer called on its own: function and arguments
    rets,         \* the values its calls returned, in call order
    calls         \* search_aggregated calls running concurrently: id -> its locals

vars == <<arg_query, arg_match_isbn, pc, inflight, resp, completed, g_state, g_results,
          ol_state, ol_results, combined, outcome, result, call, rets, calls>>

\* no helper call is in progress
NoCall == [fn |-> "none"]

Init ==
    /\ arg_query \in Queries
    /\ arg_match_isbn \in MatchIsbns
    /\ pc = "start"
    /\ inflight = {}
    /\ resp = <<>>
    /\ completed = <<>>
    /\ g_state = "waiting"
    /\ g_results = <<>>
    /\ ol_state = "waiting"
    /\ ol_results = <<>>
    /\ combined = <<>>
    /\ outcome = "pending"
    /\ result = <<>>
    /\ call = NoCall
    /\ rets = <<>>
    /\ calls = <<>>

\* lines 253-256 up to the first suspension: both provider coroutines run
\* to their first await, which issues every request
Fanout ==
    /\ pc = "start"
    /\ pc' = "gathering"
    /\ inflight' = Range(GoogleSlots(arg_query)) \cup {"ol"}
    /\ UNCHANGED <<calls, call, rets, arg_query, arg_match_isbn, resp, completed, g_state, g_results,
                   ol_state, ol_results, combined, outcome, result>>

\* one of search_google's client.get tasks completes: with a response, or
\* with an exception that gather(return_exceptions=True) keeps as a result
GoogleRequestDone ==
    /\ pc = "gathering"
    /\ \E s \in inflight \ {"ol"}, r \in GoogleResponses :
        /\ inflight' = inflight \ {s}
        /\ resp' = (s :> r) @@ resp
        /\ completed' = Append(completed, s)
    /\ UNCHANGED <<calls, call, rets, arg_query, arg_match_isbn, pc, g_state, g_results, ol_state,
                   ol_results, combined, outcome, result>>

\* lines 148-200: every request of search_google has completed; it walks
\* the responses and returns its results, or raises
GoogleReturn ==
    /\ pc = "gathering"
    /\ g_state = "waiting"
    /\ Range(GoogleSlots(arg_query)) \subseteq DOMAIN resp
    /\ LET done == search_google(gather(GoogleSlots(arg_query), resp, completed),
                                 arg_query, arg_match_isbn)
       IN  /\ g_state' = IF done.ok THEN "returned" ELSE "raised"
           /\ g_results' = IF done.ok THEN done.results ELSE <<>>
    /\ UNCHANGED <<calls, call, rets, arg_query, arg_match_isbn, pc, inflight, resp, completed, ol_state,
                   ol_results, combined, outcome, result>>

\* lines 205-247: search_open_library's request completes and the coroutine
\* runs to its return
OpenLibraryReturn ==
    /\ pc = "gathering"
    /\ "ol" \in inflight
    /\ \E r \in OpenLibraryResponses :
        /\ inflight' = inflight \ {"ol"}
        /\ resp' = ("ol" :> r) @@ resp
        /\ completed' = Append(completed, "ol")
        /\ ol_results' = search_open_library(r, arg_query, arg_match_isbn)
    /\ ol_state' = "returned"
    /\ UNCHANGED <<calls, call, rets, arg_query, arg_match_isbn, pc, g_state, g_results, combined,
                   outcome, result>>

\* line 256: gather (without return_exceptions) re-raises search_google's
\* exception as soon as it is raised; search_aggregated raises it
GatherRaise ==
    /\ pc = "gathering"
    /\ g_state = "raised"
    /\ pc' = "done"
    /\ outcome' = "raised"
    /\ UNCHANGED <<calls, call, rets, arg_query, arg_match_isbn, inflight, resp, completed, g_state,
                   g_results, ol_state, ol_results, combined, result>>

\* a join that returns as soon as search_open_library has returned, with
\* whatever search_google has by then
GatherReturnFirstCompleted ==
    /\ pc = "gathering"
    /\ ol_state = "returned"
    /\ combined' = g_results \o ol_results
    /\ result' = sort_by_score(filter_matches(combined'))
    /\ outcome' = "returned"
    /\ pc' = "done"
    /\ UNCHANGED <<calls, call, rets, arg_query, arg_match_isbn, inflight, resp, completed, g_state,
                   g_results, ol_state, ol_results>>

\* lines 256-266: both providers returned; merge, filter, sort, return
GatherReturn ==
    /\ pc = "gathering"
    /\ g_state = "returned"
    /\ ol_state = "returned"
    /\ combined' = g_results \o ol_results
    /\ result' = sort_by_score(filter_matches(combined'))
    /\ outcome' = "returned"
    /\ pc' = "done"
    /\ UNCHANGED <<calls, call, rets, arg_query, arg_match_isbn, inflight, resp, completed, g_state,
                   g_results, ol_state, ol_results>>

Next ==
    \/ Fanout
    \/ GoogleRequestDone
    \/ GoogleReturn
    \/ OpenLibraryReturn
    \/ GatherRaise
    \/ GatherReturn

Spec == Init /\ [][Next]_vars

\* ------------------------------------------- the helpers called on their own
\* normalize_text, is_isbn and the two scorers are plain functions; here
\* one of them is called on arguments drawn from bounded sets, with no
\* search in progress.

MaxTextLen == 3

TextAlphabet ==
    {"D", "u", "1", " ", "\t", "-", "e_acute", "fi_ligature", "emdash", "sup_2"}

\* the texts over TextAlphabet of length at most n
RECURSIVE TextsUpTo(_)
TextsUpTo(n) ==
    IF n = 0 THEN {<<>>}
    ELSE LET shorter == TextsUpTo(n - 1)
         IN  shorter \cup {Append(t, c) : t \in {x \in shorter : Len(x) = n - 1},
                                          c \in TextAlphabet}

\* the arguments of normalize_text: a text, the empty text, or None
Texts == TextsUpTo(MaxTextLen) \cup {NoneVal}

DigitRun == <<"9", "7", "8", "0", "4", "4", "1", "0", "1", "3", "5", "9", "3", "1">>

Isbn13Spec == <<"9", "7", "8", "-", "0", "-", "1", "3", "-", "4", "6", "8", "5", "9", "9", "-", "1">>

\* the arguments of is_isbn: runs of 9 to 14 digits, the same with one
\* character inserted or replaced, and some fixed texts
IsbnBases == {SubSeq(DigitRun, 1, n) : n \in 9..14}

Oddities == {"-", " ", "\t", "x", "arabic_3", "sup_2"}

IsbnQueries ==
    IsbnBases
        \cup {SubSeq(b, 1, p) \o <<c>> \o SubSeq(b, p + 1, Len(b)) :
                b \in IsbnBases, p \in {0, 3, 9}, c \in Oddities}
        \cup {[b EXCEPT ![p] = c] : b \in IsbnBases, p \in {1, 4, 9}, c \in Oddities}
        \cup {NoneVal, <<>>, <<"-">>, Isbn13Hyphens, Isbn13Spec,
              <<"a", "b", "c", "1", "2", "3">>}

Dune == <<"D", "u", "n", "e">>
DuneMessiah == <<"D", "u", "n", "e", " ", "M", "e", "s", "s", "i", "a", "h">>

\* the book dicts handed to the scorers
ScoreTitles ==
    {Dune, DuneMessiah, <<"D", "u", "n", "e", "s">>,
     <<"T", "h", "e", " ", "D", "u", "n", "e">>,
     <<"C", "o", "o", "k", "i", "n", "g">>,
     <<"!", "!", "!">>, <<"cjk", "cjk", "cjk", "cjk">>}

ScoreAuthors == {Unknown, FrankHerbert, Dune, DuneMessiah, <<>>}

RealCover == <<"https://", "books.google.com/content?id=dune", "&", "zoom=0">>

ScoreBooks ==
    {[title |-> t, author |-> a, cover |-> c, summary |-> s, year |-> y,
      pages |-> n, isbn |-> i] :
        t \in ScoreTitles, a \in ScoreAuthors, c \in {Placeholder, RealCover},
        s \in {0, 50, 51}, y \in {<<>>, <<"1", "9", "6", "5">>},
        n \in {0, 49, 50, 412}, i \in {NoneVal, <<>>, Isbn13}}

ScoreQueries ==
    {Dune, DuneMessiah,
     <<"9", "7", "8", "-", "0", "4", "4", "1", "0", "1", "3", "5", "9", "3">>}

\* the match_isbn of a call: none, an ISBN with hyphens, or the text "None"
ScoreMatchIsbns == {NoneVal, Isbn13Hyphens, <<"N", "o", "n", "e">>}

\* the books scored by one call: a book, and for a book without pages also
\* the same book with a page count
BooksToScore ==
    {<<b>> : b \in ScoreBooks}
        \cup {<<b, [b EXCEPT !.pages = n]>> :
                b \in {x \in ScoreBooks : x.pages = 0}, n \in {50, 412}}

Calls ==
    {[fn |-> "normalize_text", text |-> t] : t \in Texts}
        \cup {[fn |-> "is_isbn", query |-> q] : q \in IsbnQueries}
        \cup {[fn |-> "score", books |-> bs, query |-> q, match_isbn |-> m] :
                bs \in BooksToScore, q \in ScoreQueries, m \in ScoreMatchIsbns}

InitFunctions ==
    /\ arg_query = NoneVal
    /\ arg_match_isbn = NoneVal
    /\ pc = "idle"
    /\ inflight = {}
    /\ resp = <<>>
    /\ completed = <<>>
    /\ g_state = "waiting"
    /\ g_results = <<>>
    /\ ol_state = "waiting"
    /\ ol_results = <<>>
    /\ combined = <<>>
    /\ outcome = "pending"
    /\ result = <<>>
    /\ call \in Calls
    /\ rets = <<>>
    /\ calls = <<>>

\* lines 16-33: normalize_text on the text, then on what it returned
CallNormalizeText ==
    /\ call.fn = "normalize_text"
    /\ Len(rets) < 2
    /\ rets' = Append(rets, normalize_text(IF rets = <<>> THEN call.text ELSE rets[1]))
    /\ UNCHANGED <<calls, call, arg_query, arg_match_isbn, pc, inflight, resp, completed,
                   g_state, g_results, ol_state, ol_results, combined, outcome, result>>

\* lines 11-14
CallIsIsbn ==
    /\ call.fn = "is_isbn"
    /\ rets = <<>>
    /\ rets' = <<is_isbn(call.query)>>
    /\ UNCHANGED <<calls, call, arg_query, arg_match_isbn, pc, inflight, resp, completed,
                   g_state, g_results, ol_state, ol_results, combined, outcome, result>>

\* lines 187-197: the next book of the call gets its scores
ScoreBook ==
    /\ call.fn = "score"
    /\ Len(rets) < Len(call.books)
    /\ rets' = Append(rets, Scored(call.books[Len(rets) + 1], call.query, call.match_isbn))
    /\ UNCHANGED <<calls, call, arg_query, arg_match_isbn, pc, inflight, resp, completed,
                   g_state, g_results, ol_state, ol_results, combined, outcome, result>>

NextFunctions ==
    \/ CallNormalizeText
    \/ CallIsIsbn
    \/ ScoreBook

SpecFunctions == InitFunctions /\ [][NextFunctions]_vars

\* ---------------------------------------- concurrent search_aggregated calls
\* Several calls of search_aggregated run interleaved on one event loop.
\* Each has its own arguments, its own httpx client and so its own
\* responses, and the locals of its coroutines.

MaxCalls == 2

CallIds == 1..MaxCalls

\* the arguments of the calls, reused in turn
ConcurrentArgs ==
    <<[query |-> Dune, match_isbn |-> NoneVal],
      [query |-> Dune, match_isbn |-> Isbn13Hyphens],
      [query |-> <<"9", "7", "8", "-", "0", "4", "4", "1", "0", "1", "3", "5", "9", "3">>,
       match_isbn |-> NoneVal]>>

ArgsOf(c) == ConcurrentArgs[((c - 1) % Len(ConcurrentArgs)) + 1]

\* what a request of a concurrent call can complete with
ConcurrentGoogleResponses ==
    {Ok([totalItems |-> 2, items |-> <<gMessiah, gDune>>]),
     [exc |-> FALSE, status |-> 200, json |-> FALSE]}

ConcurrentOpenLibraryResponses ==
    {Ok([numFound |-> 2, docs |-> <<oCooking, oDune>>]), [exc |-> TRUE]}

\* the variables of the single call and of the helper calls
solo_vars == <<arg_query, arg_match_isbn, pc, inflight, resp, completed, g_state,
               g_results, ol_state, ol_results, combined, outcome, result, call, rets>>

InitConcurrent ==
    /\ arg_query = NoneVal
    /\ arg_match_isbn = NoneVal
    /\ pc = "idle"
    /\ inflight = {}
    /\ resp = <<>>
    /\ completed = <<>>
    /\ g_state = "waiting"
    /\ g_results = <<>>
    /\ ol_state = "waiting"
    /\ ol_results = <<>>
    /\ combined = <<>>
    /\ outcome = "pending"
    /\ result = <<>>
    /\ call = NoCall
    /\ rets = <<>>
    /\ calls = [c \in CallIds |->
                   [query |-> ArgsOf(c).query, match_isbn |-> ArgsOf(c).match_isbn,
                    pc |-> "start", inflight |-> {}, resp |-> <<>>,
                    g_state |-> "waiting", g_results |-> <<>>,
                    ol_state |-> "waiting", ol_results |-> <<>>,
                    outcome |-> "pending", result |-> <<>>]]

\* a set of ids visible to every call, filled from the other calls' results
shared_seen_ids(c, cs) ==
    UNION {{cs[d].g_results[i].source_id : i \in 1..Len(cs[d].g_results)} :
              d \in DOMAIN cs \ {c}}

\* line 150: seen_ids = set(), a local of the call
fresh_seen_ids(c, cs) == {}

\* lines 253-256 of call c
ConcFanout ==
    \E c \in CallIds :
        /\ calls[c].pc = "start"
        /\ calls' = [calls EXCEPT ![c] =
                        [@ EXCEPT !.pc = "gathering",
                                  !.inflight = Range(GoogleSlots(calls[c].query)) \cup {"ol"}]]
        /\ UNCHANGED solo_vars

\* one of call c's Google requests completes
ConcGoogleRequestDone ==
    \E c \in CallIds :
        /\ calls[c].pc = "gathering"
        /\ \E s \in calls[c].inflight \ {"ol"}, r \in ConcurrentGoogleResponses :
            calls' = [calls EXCEPT ![c] =
                         [@ EXCEPT !.inflight = @ \ {s}, !.resp = (s :> r) @@ @]]
        /\ UNCHANGED solo_vars

\* lines 148-200 of call c
ConcGoogleReturn ==
    \E c \in CallIds :
        /\ calls[c].pc = "gathering"
        /\ calls[c].g_state = "waiting"
        /\ Range(GoogleSlots(calls[c].query)) \subseteq DOMAIN calls[c].resp
        /\ LET done == GoogleResponseLoop(
                           gather(GoogleSlots(calls[c].query), calls[c].resp, <<>>),
                           [ok |-> TRUE, seen_ids |-> fresh_seen_ids(c, calls),
                            results |-> <<>>],
                           calls[c].query, calls[c].match_isbn)
           IN  calls' = [calls EXCEPT ![c] =
                            [@ EXCEPT !.g_state = IF done.ok THEN "returned" ELSE "raised",
                                      !.g_results = IF done.ok THEN done.results ELSE <<>>]]
        /\ UNCHANGED solo_vars

\* lines 205-247 of call c
ConcOpenLibraryReturn ==
    \E c \in CallIds :
        /\ calls[c].pc = "gathering"
        /\ "ol" \in calls[c].inflight
        /\ \E r \in ConcurrentOpenLibraryResponses :
            calls' = [calls EXCEPT ![c] =
                         [@ EXCEPT !.inflight = @ \ {"ol"},
                                   !.resp = ("ol" :> r) @@ @,
                                   !.ol_state = "returned",
                                   !.ol_results = search_open_library(
                                        r, calls[c].query, calls[c].match_isbn)]]
        /\ UNCHANGED solo_vars

\* line 256 of call c re-raises search_google's exception
ConcGatherRaise ==
    \E c \in CallIds :
        /\ calls[c].pc = "gathering"
        /\ calls[c].g_state = "raised"
        /\ calls' = [calls EXCEPT ![c] = [@ EXCEPT !.pc = "done", !.outcome = "raised"]]
        /\ UNCHANGED solo_vars

\* lines 256-266 of call c
ConcGatherReturn ==
    \E c \in CallIds :
        /\ calls[c].pc = "gathering"
        /\ calls[c].g_state = "returned"
        /\ calls[c].ol_state = "returned"
        /\ calls' = [calls EXCEPT ![c] =
                        [@ EXCEPT !.pc = "done", !.outcome = "returned",
                                  !.result = sort_by_score(filter_matches(
                                      calls[c].g_results \o calls[c].ol_results))]]
        /\ UNCHANGED solo_vars

NextConcurrent ==
    \/ ConcFanout
    \/ ConcGoogleRequestDone
    \/ ConcGoogleReturn
    \/ ConcOpenLibraryReturn
    \/ ConcGatherRaise
    \/ ConcGatherReturn

SpecConcurrent == InitConcurrent /\ [][NextConcurrent]_vars




\* -------------------------------------------------------------- claims

Returned == outcome = "returned"

\* every candidate a provider returned to the aggregator
Candidates == Range(g_results) \cup Range(ol_results)

\* the rank scores that occur in a list
RanksOf(list) == {list[i].rank_score : i \in 1..Len(list)}

\* the candidates of a list that have rank score r, in list order
WithRank(list, r) == SelectSeq(list, LAMBDA b : b.rank_score = r)

\* the candidates of a list whose match score reaches the threshold
Survivors(list) == SelectSeq(list, LAMBDA b : b.match_score >= 40)

\* the responses of search_google's requests, first strategy first
GoogleResponded == Range(GoogleSlots(arg_query)) \subseteq DOMAIN resp

\* C1: the list search_aggregated returns is sorted non-increasing by rank
\* score: for positions i < j, rank_score[i] >= rank_score[j].
C1_SortedByRank ==
    Returned =>
        \A i, j \in 1..Len(result) :
            i < j => result[i].rank_score >= result[j].rank_score

\* a returned list of several ranks whose merged order was not yet sorted
C1_Witness ==
    /\ Returned
    /\ \E i, j \in 1..Len(combined) :
        /\ i < j
        /\ combined[i].match_score >= 40 /\ combined[j].match_score >= 40
        /\ combined[i].rank_score < combined[j].rank_score

\* C2: the sort is stable: the surviving candidates of one rank score appear
\* in the returned list in the order of the merged sequence, Google's
\* candidates before Open Library's and each provider's in response order.
C2_StableSort ==
    Returned =>
        \A r \in RanksOf(result) \cup RanksOf(g_results \o ol_results) :
            WithRank(result, r) = WithRank(Survivors(g_results \o ol_results), r)

\* a returned list where a Google and an Open Library candidate tie, below
\* a candidate of higher rank
C2_Witness ==
    /\ Returned
    /\ \E i, j, k \in 1..Len(result) :
        /\ i < j
        /\ result[i].rank_score = result[j].rank_score
        /\ result[i].source = "Google" /\ result[j].source = "OpenLibrary"
        /\ result[k].rank_score > result[i].rank_score

\* C3: search_aggregated never returns a candidate whose match score is
\* below 40, whatever its content and rank scores are.
C3_ThresholdFilter ==
    Returned => \A i \in 1..Len(result) : result[i].match_score >= 40

\* a merged candidate of match score below 40 and rank score above it was
\* dropped from a list that is not empty
C3_Witness ==
    /\ Returned
    /\ result # <<>>
    /\ \E i \in 1..Len(combined) :
        /\ combined[i].match_score < 40
        /\ combined[i].rank_score >= 40

\* C4: every candidate either provider builds has match and content scores
\* in 0..100, a rank score that is their sum, and a sort key equal to the
\* rank score.
C4_ScoreRanges ==
    \A b \in Candidates :
        /\ 0 <= b.match_score /\ b.match_score <= 100
        /\ 0 <= b.content_score /\ b.content_score <= 100
        /\ b.rank_score = b.match_score + b.content_score
        /\ b.score = b.rank_score

\* candidates whose content sum was clamped at both ends
C4_Witness ==
    /\ \E b \in Range(g_results) : ContentRaw(b) > 100 /\ b.content_score = 100
    /\ \E b \in Range(g_results) : ContentRaw(b) < 0 /\ b.content_score = 0
    /\ ol_results # <<>>

\* C5 as stated: a non-empty match_isbn that equals the candidate's
\* identifier once hyphens and spaces are removed from both gives match
\* score 100.
C5_OracleOverride_Original ==
    \A b \in Candidates :
        (/\ Truthy(arg_match_isbn)
         /\ b.isbn # NoneVal
         /\ StripIsbn(arg_match_isbn) = StripIsbn(b.isbn))
            => b.match_score = 100

\* C5 (amended): a match_isbn that is non-empty once hyphens and spaces are
\* removed, and then equals the candidate's identifier stripped the same
\* way, gives match score 100 whatever the query, title and author.
C5_OracleOverride ==
    \A b \in Candidates :
        (/\ Truthy(arg_match_isbn)
         /\ StripIsbn(arg_match_isbn) # <<>>
         /\ b.isbn # NoneVal
         /\ StripIsbn(arg_match_isbn) = StripIsbn(b.isbn))
            => b.match_score = 100

\* a candidate whose title and author match nothing of a text query scores
\* 100 through its identifier
C5_Witness ==
    /\ ~is_isbn(arg_query)
    /\ Truthy(arg_match_isbn)
    /\ \E b \in Candidates :
        /\ b.isbn # NoneVal
        /\ StripIsbn(arg_match_isbn) # <<>>
        /\ StripIsbn(arg_match_isbn) # arg_match_isbn
        /\ StripIsbn(arg_match_isbn) = StripIsbn(b.isbn)
        /\ TitleTier(normalize_text(b.title), normalize_text(arg_query)) = 0
        /\ AuthorBonus(normalize_text(b.author), normalize_text(arg_query)) = 0
        /\ b.match_score = 100


\* C6 as stated: neither provider fetch ever propagates an exception to the
\* aggregator, whatever the network error, status or response body;
\* search_open_library always returns (it has no raised state), so the
\* claim is that search_google never raises.
C6_NoProviderRaises == g_state # "raised"

\* the response of a request that failed entirely: it raised (a timeout, a
\* network error) or came back with a status other than 200
FailedEntirely(r) == r.exc \/ r.status # 200

\* a 200 response with a JSON body
Succeeded(r) == ~r.exc /\ r.status = 200 /\ r.json

GoogleFailedEntirely ==
    /\ GoogleResponded
    /\ \A s \in Range(GoogleSlots(arg_query)) : FailedEntirely(resp[s])

GoogleSucceeded ==
    /\ GoogleResponded
    /\ \A s \in Range(GoogleSlots(arg_query)) : Succeeded(resp[s])
    /\ g_state = "returned"

\* the returned list is exactly the candidates of list, filtered by the
\* threshold and ranked
FilteredAndRanked(list) ==
    /\ Len(result) = Len(Survivors(list))
    /\ \A r \in RanksOf(result) \cup RanksOf(list) :
        WithRank(result, r) = WithRank(Survivors(list), r)
    /\ \A i, j \in 1..Len(result) :
        i < j => result[i].rank_score >= result[j].rank_score

\* C7: when every Google request fails entirely and Open Library answers,
\* search_google does not raise and search_aggregated returns exactly Open
\* Library's candidates, filtered and ranked; likewise when Open Library
\* fails entirely and Google succeeds.
C7_OneProviderFails ==
    /\ (GoogleFailedEntirely /\ "ol" \in DOMAIN resp /\ Succeeded(resp["ol"])) =>
        /\ g_state # "raised"
        /\ g_state = "returned" => g_results = <<>>
        /\ pc = "done" => (Returned /\ FilteredAndRanked(ol_results))
    /\ (GoogleSucceeded /\ "ol" \in DOMAIN resp /\ FailedEntirely(resp["ol"])) =>
        /\ ol_results = <<>>
        /\ pc = "done" => (Returned /\ FilteredAndRanked(g_results))

\* Google's requests failed, one by an exception and one by its status, and
\* the returned list holds Open Library's candidates
C7_Witness ==
    /\ pc = "done"
    /\ GoogleFailedEntirely
    /\ \E s, t \in Range(GoogleSlots(arg_query)) : resp[s].exc /\ ~resp[t].exc
    /\ Succeeded(resp["ol"])
    /\ result # <<>>
    /\ result # ol_results

\* a doc of Open Library's response that cannot be turned into a book
OpenLibraryFaulty ==
    /\ "ol" \in DOMAIN resp
    /\ Succeeded(resp["ol"])
    /\ "docs" \in DOMAIN resp["ol"].data
    /\ \E i \in 1..Len(resp["ol"].data.docs) :
        Get(resp["ol"].data.docs[i], "isbn", <<NoneVal>>) = <<>>

\* C8 as stated: a provider whose response is faulty contributes no
\* candidate, also when the fault is met after earlier items were parsed,
\* and search_aggregated does not abort.
C8_FaultyContributesNothing ==
    /\ outcome # "raised"
    /\ OpenLibraryFaulty => ol_results = <<>>

\* the ids of the items of the raw-query response
RawQueryIds ==
    LET r == resp["g1"]
    IN  IF Succeeded(r) /\ "items" \in DOMAIN r.data
        THEN {r.data.items[i].id : i \in {k \in 1..Len(r.data.items) :
                                          "id" \in DOMAIN r.data.items[k]}}
        ELSE {}

\* the merged sequence as the responses determine it, slot by slot
MergedBySlot ==
    search_google([i \in 1..Len(GoogleSlots(arg_query)) |->
                       resp[GoogleSlots(arg_query)[i]]],
                  arg_query, arg_match_isbn).results
        \o search_open_library(resp["ol"], arg_query, arg_match_isbn)

\* C9: the merged sequence does not depend on the order the requests
\* completed in: Google's candidates precede Open Library's, the candidates
\* of the raw-query response precede those of the title-scoped response,
\* and the sequence is the one the responses determine slot by slot.
C9_DeterministicMerge ==
    Returned =>
        /\ \A i, j \in 1..Len(combined) :
            (i < j /\ combined[j].source = "Google") =>
                /\ combined[i].source = "Google"
                /\ combined[j].source_id \in RawQueryIds =>
                       combined[i].source_id \in RawQueryIds
        /\ combined = MergedBySlot
        /\ result = sort_by_score(filter_matches(MergedBySlot))

\* the title-scoped request completed before the raw-query request, after
\* Open Library's, and each of the three contributed candidates
C9_Witness ==
    /\ Returned
    /\ completed = <<"ol", "g2", "g1">>
    /\ ol_results # <<>>
    /\ \E i, j \in 1..Len(g_results) :
        /\ g_results[i].source_id \in RawQueryIds
        /\ g_results[j].source_id \notin RawQueryIds

\* a response that yields no item: a failure, or a body without items
Nothing(r, key) ==
    \/ FailedEntirely(r)
    \/ Succeeded(r) /\ (key \notin DOMAIN r.data \/ r.data[key] = <<>>)

AllNothing ==
    /\ GoogleResponded
    /\ \A s \in Range(GoogleSlots(arg_query)) : Nothing(resp[s], "items")
    /\ "ol" \in DOMAIN resp
    /\ Nothing(resp["ol"], "docs")

HasSuppliedIdentifier(b) ==
    /\ Truthy(arg_match_isbn)
    /\ StripIsbn(arg_match_isbn) # <<>>
    /\ b.isbn # NoneVal
    /\ StripIsbn(b.isbn) = StripIsbn(arg_match_isbn)

\* C11 as stated: when a merged candidate's identifier equals the supplied
\* one, the first element of the returned list (run_import's best_match)
\* is a candidate with that identifier, whatever the other candidates
\* score.
C11_BestMatchHasIdentifier ==
    (Returned /\ \E i \in 1..Len(combined) : HasSuppliedIdentifier(combined[i]))
        => (result # <<>> /\ HasSuppliedIdentifier(result[1]))


\* the characters normalize_text may return
LowerAlnum == LowerLetters \cup Digits

\* lowercase letters and digits in words separated by single spaces, with
\* no space at either end
IsNormalForm(t) ==
    /\ \A i \in 1..Len(t) : t[i] \in LowerAlnum \cup {" "}
    /\ t # <<>> => (t[1] # " " /\ t[Len(t)] # " ")
    /\ \A i \in 1..(Len(t) - 1) : ~(t[i] = " " /\ t[i + 1] = " ")

\* C12: normalize_text is total and idempotent: every input, also the empty
\* and the absent one, gives a text of lowercase alphanumerics separated by
\* single spaces; the empty or absent input gives the empty text; and
\* normalizing the result gives the result again.
C12_NormalizeIdempotent ==
    call.fn = "normalize_text" =>
        /\ \A i \in 1..Len(rets) : IsNormalForm(rets[i])
        /\ (rets # <<>> /\ call.text \in {<<>>, NoneVal}) => rets[1] = <<>>
        /\ Len(rets) = 2 => rets[2] = rets[1]

\* a text with an accent, a capital and surrounding whitespace was
\* normalized to two words, twice
C12_Witness ==
    /\ call.fn = "normalize_text"
    /\ Len(rets) = 2
    /\ rets[1] # call.text
    /\ \E i \in 1..Len(rets[1]) : rets[1][i] = " "
    /\ \E i \in 1..Len(call.text) : call.text[i] \in {"\t", "e_acute", "D"}


\* C13 as stated: is_isbn returns true exactly when the query, with every
\* hyphen and space removed, consists only of the digits 0-9 and has length
\* 10 or 13; it returns false for an empty or absent query and for a query
\* that contains a letter.
C13_IsIsbnIffDigits ==
    (call.fn = "is_isbn" /\ rets # <<>>) =>
        rets[1] = (/\ call.query \notin {NoneVal, <<>>}
                   /\ \A i \in 1..Len(StripIsbn(call.query)) :
                        StripIsbn(call.query)[i] \in Digits
                   /\ Len(StripIsbn(call.query)) \in {10, 13})


\* a call that scored a book without pages and then the same book with a
\* page count of 50 or more
ScoredTwins ==
    /\ call.fn = "score"
    /\ Len(rets) = 2
    /\ call.books[1].pages = 0
    /\ call.books[2].pages >= 50
    /\ call.books[2] = [call.books[1] EXCEPT !.pages = call.books[2].pages]

\* C14 as stated: a candidate without pages always has a strictly lower
\* rank score than the same candidate with 50 pages or more.
C14_ZeroPagesStrictlyLower_Original ==
    ScoredTwins => rets[1].rank_score < rets[2].rank_score

\* C14 (amended): a candidate without pages never has a higher rank score
\* than the same candidate with 50 pages or more, and has a strictly lower
\* one whenever the populated candidate's content score is above 0 (when
\* both content sums are clamped to 0 the rank scores are equal); its match
\* score is the same, so it can reach the threshold and be returned.
C14_ZeroPagesRanksLower ==
    ScoredTwins =>
        /\ rets[1].match_score = rets[2].match_score
        /\ rets[1].rank_score <= rets[2].rank_score
        /\ rets[2].content_score > 0 => rets[1].rank_score < rets[2].rank_score

\* a book without pages reached the match threshold and ranks below its
\* populated twin
C14_Witness ==
    /\ ScoredTwins
    /\ rets[1].match_score >= 40
    /\ rets[1].content_score > 0
    /\ rets[1].rank_score < rets[2].rank_score


\* the scenario of C15: the book scored by the i-th call is "Dune" by Frank
\* Herbert with a real cover, a summary longer than 50 characters, a year,
\* 412 pages and an identifier, for the query "Dune" and no match_isbn
DuneScenario(i) ==
    /\ call.fn = "score"
    /\ i \in 1..Len(rets)
    /\ call.query = Dune
    /\ call.match_isbn = NoneVal
    /\ call.books[i].title = Dune
    /\ call.books[i].author = FrankHerbert
    /\ call.books[i].summary > 50
    /\ call.books[i].pages = 412
    /\ call.books[i].cover # <<>> /\ ~HasPlaceholder(call.books[i].cover)
    /\ call.books[i].year # <<>>
    /\ Truthy(call.books[i].isbn)

IdentifierText(b) == StripIsbn(Str(b.isbn))

\* rule 1 fires: a match_isbn that is non-empty once stripped equals the
\* book's identifier
ExternalRuleFires(b) ==
    /\ call.match_isbn \notin {NoneVal, <<>>}
    /\ StripIsbn(call.match_isbn) # <<>>
    /\ StripIsbn(call.match_isbn) = IdentifierText(b)

\* the query is a detected identifier: 10 or 13 digit characters once
\* hyphens and spaces are removed
QueryIsIdentifier ==
    /\ call.query \notin {NoneVal, <<>>}
    /\ Len(StripIsbn(call.query)) \in {10, 13}
    /\ \A k \in 1..Len(StripIsbn(call.query)) : StripIsbn(call.query)[k] \in DigitChars

\* rule 2 fires: the query is a detected identifier and equals the book's
QueryRuleFires(b) ==
    QueryIsIdentifier /\ StripIsbn(call.query) = IdentifierText(b)

\* the title rules of the claim, in order, as <<applies, points>>
TitleRules(t, q) ==
    << <<t = q, 60>>,
       <<StartsWith(t, q \o <<" ">>) \/ StartsWith(q, t \o <<" ">>), 55>>,
       <<StartsWith(t, q) \/ StartsWith(q, t), 40>>,
       <<Contains(t, q), 20>>,
       <<TRUE, 0>> >>

\* the points of the first title rule that applies
FirstApplicable(rules) ==
    rules[CHOOSE k \in 1..Len(rules) :
            rules[k][1] /\ \A j \in 1..(k - 1) : ~rules[j][1]][2]

\* the author bonus of the claim
ClaimedAuthorBonus(a, q) ==
    IF a # <<>> /\ (Contains(q, a) \/ Contains(a, q)) THEN 30 ELSE 0

\* C17: when neither identifier rule fires, the match score is the points of
\* the first applicable title rule (60, 55, 40, 20, 0) plus the author
\* bonus (30 when the normalized author is non-empty and is contained in
\* the normalized query or contains it).
C17_TitleTierPlusAuthor ==
    call.fn = "score" =>
        \A i \in 1..Len(rets) :
            (~ExternalRuleFires(rets[i]) /\ ~QueryRuleFires(rets[i])) =>
                rets[i].match_score =
                    FirstApplicable(TitleRules(normalize_text(rets[i].title),
                                               normalize_text(call.query)))
                    + ClaimedAuthorBonus(normalize_text(rets[i].author),
                                         normalize_text(call.query))

\* a title that satisfies the word-bounded rule, and so the unbounded one
\* too, got 55, with the bonus of an author that contains the query
C17_Witness ==
    /\ call.fn = "score"
    /\ Len(rets) = 1
    /\ call.query = Dune
    /\ rets[1].title = DuneMessiah
    /\ rets[1].author = DuneMessiah
    /\ rets[1].match_score = 85


\* C18: when the query is a detected identifier that equals the book's
\* identifier (hyphens and spaces removed from both) the match score is
\* 100 whatever the title and author; when it is a detected identifier that
\* differs, the score is the one of the title and author rules.
C18_IdentifierQueryRule ==
    (call.fn = "score" /\ QueryIsIdentifier) =>
        \A i \in 1..Len(rets) :
            /\ QueryRuleFires(rets[i]) => rets[i].match_score = 100
            /\ (~QueryRuleFires(rets[i]) /\ ~ExternalRuleFires(rets[i])) =>
                /\ rets[i].match_score # 100
                /\ rets[i].match_score =
                    FirstApplicable(TitleRules(normalize_text(rets[i].title),
                                               normalize_text(call.query)))
                    + ClaimedAuthorBonus(normalize_text(rets[i].author),
                                         normalize_text(call.query))

\* a hyphenated identifier query met the same identifier, unhyphenated, on
\* a book whose title and author match nothing, with no match_isbn
C18_Witness ==
    /\ call.fn = "score"
    /\ QueryIsIdentifier
    /\ call.query # StripIsbn(call.query)
    /\ call.match_isbn = NoneVal
    /\ Len(rets) = 1
    /\ rets[1].isbn = StripIsbn(call.query)
    /\ rets[1].author = Unknown
    /\ FirstApplicable(TitleRules(normalize_text(rets[1].title),
                                  normalize_text(call.query))) = 0
    /\ rets[1].match_score = 100


\* the adjustments of the claim, each from the book's fields alone
CoverPoints(b) == IF b.cover # <<>> /\ b.cover # Placeholder THEN 30 ELSE 0

SummaryPoints(b) == IF b.summary > 50 THEN 30 ELSE IF b.summary = 0 THEN -10 ELSE 0

AuthorPoints(b) ==
    LET a == normalize_text(b.author)
        t == normalize_text(b.title)
    IN  IF Len(a) > 3 /\ (Contains(t, a) \/ Contains(a, t)) THEN -40
        ELSE IF b.author # Unknown THEN 10 ELSE 0

YearPoints(b) == IF b.year # <<>> THEN 10 ELSE 0

PagePoints(b) ==
    IF b.pages = 0 THEN -50
    ELSE IF b.pages > 0 /\ b.pages < 50 THEN -15
    ELSE 20

IdentifierPoints(b) == IF b.isbn \notin {NoneVal, <<>>} THEN 5 ELSE 0

ClaimedContentSum(b) ==
    CoverPoints(b) + SummaryPoints(b) + AuthorPoints(b) + YearPoints(b)
        + PagePoints(b) + IdentifierPoints(b)

\* C19: the content score is the sum of the cover, summary, author, year,
\* page-count and identifier adjustments clamped to 0..100, a value of the
\* book's fields alone, whatever the query and the match_isbn.
C19_ContentScoreSum ==
    call.fn = "score" =>
        \A i \in 1..Len(rets) :
            rets[i].content_score =
                (IF ClaimedContentSum(call.books[i]) < 0 THEN 0
                 ELSE IF ClaimedContentSum(call.books[i]) > 100 THEN 100
                 ELSE ClaimedContentSum(call.books[i]))

\* a book with a summary of exactly 50 characters and 49 pages scored
\* 30 + 0 + 10 + 10 - 15 + 5 = 40 under an identifier query and a match_isbn
C19_Witness ==
    /\ call.fn = "score"
    /\ QueryIsIdentifier
    /\ call.match_isbn # NoneVal
    /\ Len(rets) = 1
    /\ rets[1].summary = 50
    /\ rets[1].pages = 49
    /\ rets[1].content_score = 40


\* the items of a Google response that search_google walks
ItemsOf(r) ==
    IF Succeeded(r) /\ "items" \in DOMAIN r.data THEN r.data.items ELSE <<>>

\* the record ids of the items of Google's responses, raw-query response
\* first, in response order
GoogleItemIds ==
    LET items == IF Len(GoogleSlots(arg_query)) = 1 THEN ItemsOf(resp["g1"])
                 ELSE ItemsOf(resp["g1"]) \o ItemsOf(resp["g2"])
    IN  [i \in 1..Len(items) |-> items[i].id]

\* a sequence without the repetitions of earlier elements
FirstOccurrences(ids) ==
    LET firsts == {i \in 1..Len(ids) : \A j \in 1..(i - 1) : ids[j] # ids[i]}
        nth(k) == CHOOSE i \in firsts : Cardinality({j \in firsts : j < i}) = k - 1
    IN  [k \in 1..Cardinality(firsts) |-> nth(k)]

\* C20: the list search_google returns never holds two candidates with the
\* same source_id: a record met again, in the other response or in the
\* same one, is skipped, and each record stands where it first occurred.
C20_GoogleDedup ==
    g_state = "returned" =>
        /\ \A i, j \in 1..Len(g_results) :
            i # j => g_results[i].source_id # g_results[j].source_id
        /\ Len(g_results) = Len(FirstOccurrences(GoogleItemIds))
        /\ \A k \in 1..Len(g_results) :
            g_results[k].source_id = GoogleItemIds[FirstOccurrences(GoogleItemIds)[k]]

\* the raw-query response listed one volume twice and the title-scoped
\* response listed it again after another volume
C20_Witness ==
    /\ g_state = "returned"
    /\ Len(GoogleSlots(arg_query)) = 2
    /\ ItemsOf(resp["g1"]) = RepeatedAnswer
    /\ Len(ItemsOf(resp["g2"])) = 2
    /\ ItemsOf(resp["g2"])[2] = gDune
    /\ Len(g_results) = 2


\* the identifier of the first entry of type ISBN_13 in an identifier list,
\* None when there is none
FirstIsbn13(idents) ==
    LET of13 == {i \in 1..Len(idents) : idents[i].type = "ISBN_13"}
    IN  IF of13 = {} THEN NoneVal
        ELSE idents[CHOOSE i \in of13 : \A j \in of13 : i <= j].identifier

\* C21 as stated: search_google gives a candidate the identifier of the
\* first ISBN_13 entry of the volume's industryIdentifiers, also when
\* several entries have that type, and None when none has.
C21_FirstIsbn13Entry ==
    \A b \in Range(g_results) :
        \A item \in Range(GoogleCatalogue) :
            ("id" \in DOMAIN item /\ item.id = b.source_id) =>
                b.isbn = FirstIsbn13(Get(item.volumeInfo, "industryIdentifiers", <<>>))


\* every request of the call: Google's, one per strategy, and Open Library's
AllSlots == Range(GoogleSlots(arg_query)) \cup {"ol"}

\* once a request has completed, every request has been started
AllStartedFirst == DOMAIN resp # {} => AllSlots \subseteq inflight \cup DOMAIN resp

AloneGoogle(c) ==
    search_google([i \in 1..Len(GoogleSlots(calls[c].query)) |->
                       calls[c].resp[GoogleSlots(calls[c].query)[i]]],
                  calls[c].query, calls[c].match_isbn)

\* the list call c returns when it runs alone with its own arguments and
\* responses
AloneResult(c) ==
    sort_by_score(filter_matches(
        AloneGoogle(c).results
            \o search_open_library(calls[c].resp["ol"], calls[c].query,
                                   calls[c].match_isbn)))

\* C23: calls of search_aggregated that run interleaved are independent:
\* each returns exactly the list it returns when run alone on its own
\* query, match_isbn and responses, and raises only when it raises alone.
C23_ConcurrentCallsIndependent ==
    \A c \in DOMAIN calls :
        /\ calls[c].outcome = "returned" =>
            (AloneGoogle(c).ok /\ calls[c].result = AloneResult(c))
        /\ calls[c].g_state = "returned" => calls[c].g_results = AloneGoogle(c).results
        /\ calls[c].outcome = "raised" => ~AloneGoogle(c).ok

\* the first call has returned its list and the second, still waiting for
\* Open Library, has got from Google the volumes the first call got
C23_Witness ==
    /\ calls # <<>>
    /\ calls[1].outcome = "returned"
    /\ Len(calls[1].result) >= 3
    /\ calls[2].pc = "gathering"
    /\ "ol" \in calls[2].inflight
    /\ calls[2].g_state = "returned"
    /\ calls[2].g_results # <<>>
    /\ \A i \in 1..Len(calls[2].g_results) :
        \E j \in 1..Len(calls[1].result) :
            calls[1].result[j].source_id = calls[2].g_results[i].source_id

\* the docs of Open Library's response, when it is a 200 with a JSON body
DocsOf(r) ==
    IF Succeeded(r) /\ "docs" \in DOMAIN r.data THEN r.data.docs ELSE <<>>

\* C24 as stated: building a candidate from a response item never fails when
\* a field is missing: search_google returns whatever its items lack (the
\* item's id, an identifier entry's type), and every doc of Open Library's
\* response yields a candidate, one with an empty isbn list included, so that
\* the docs after it are still processed.
C24_MissingFieldsDefaulted ==
    /\ GoogleResponded => g_state \in {"waiting", "returned"}
    /\ ol_state = "returned" => Len(ol_results) = Len(DocsOf(resp["ol"]))

\* C25: when neither identifier rule fires the match score is one of 0, 20,
\* 30, 40, 50, 55, 60, 70, 85, 90: it never exceeds 90 and equals the
\* unclamped sum of title tier and author bonus, so the final min(score, 100)
\* leaves it as it is.
C25_HundredOnlyByIdentifier ==
    call.fn = "score" =>
        \A i \in 1..Len(rets) :
            (~ExternalRuleFires(rets[i]) /\ ~QueryRuleFires(rets[i])) =>
                /\ rets[i].match_score \in {0, 20, 30, 40, 50, 55, 60, 70, 85, 90}
                /\ rets[i].match_score <= 90
                /\ rets[i].match_score =
                    TitleTier(normalize_text(rets[i].title), normalize_text(call.query))
                    + AuthorBonus(normalize_text(rets[i].author),
                                  normalize_text(call.query))

\* the highest sum: title and author both equal to the query, no identifier
\* on the book, no match_isbn
C25_Witness ==
    /\ call.fn = "score"
    /\ call.match_isbn = NoneVal
    /\ call.query = Dune
    /\ Len(rets) = 1
    /\ rets[1].title = Dune
    /\ rets[1].author = Dune
    /\ rets[1].isbn = NoneVal
    /\ rets[1].match_score = 90

\* C26 as stated: for a query whose normalized form is non-empty, a book
\* whose normalized title is empty (only punctuation, only non-Latin
\* characters) gets title tier 0: its match score is the author bonus alone,
\* and without an author or identifier match it is below the threshold.
C26_EmptyTitleTierZero ==
    call.fn = "score" =>
        \A i \in 1..Len(rets) :
            (/\ normalize_text(call.query) # <<>>
             /\ normalize_text(rets[i].title) = <<>>
             /\ ~ExternalRuleFires(rets[i])
             /\ ~QueryRuleFires(rets[i])) =>
                /\ rets[i].match_score =
                    ClaimedAuthorBonus(normalize_text(rets[i].author),
                                       normalize_text(call.query))
                /\ ClaimedAuthorBonus(normalize_text(rets[i].author),
                                      normalize_text(call.query)) = 0 =>
                        rets[i].match_score < MATCH_THRESHOLD

\* C27 as stated: a book without an identifier (isbn None, as both providers
\* build it when the record lists none) never gets match score 100 from an
\* identifier rule, whatever the query and the match_isbn; the title and
\* author rules give at most 90, so its match score is never 100.
C27_NoIdentifierNeverHundred ==
    call.fn = "score" =>
        \A i \in 1..Len(rets) :
            rets[i].isbn = NoneVal =>
                /\ rets[i].match_score # 100
                /\ rets[i].match_score =
                    TitleTier(normalize_text(rets[i].title), normalize_text(call.query))
                    + AuthorBonus(normalize_text(rets[i].author),
                                  normalize_text(call.query))

\* the match_isbn of the call equals the book's identifier, hyphens and
\* spaces apart; a book without an identifier has none to equal
EqualsIdentifier(b) ==
    /\ b.isbn # NoneVal
    /\ StripIsbn(call.match_isbn) = StripIsbn(b.isbn)

\* C28 as stated: a match_isbn that does not equal a book's stripped
\* identifier has no effect on that book: its match, content and rank scores
\* are those of the same call without match_isbn.
C28_OtherIdentifierNoEffect ==
    (call.fn = "score" /\ call.match_isbn # NoneVal) =>
        \A i \in 1..Len(rets) :
            ~EqualsIdentifier(rets[i]) =>
                LET alone == Scored(call.books[i], call.query, NoneVal)
                IN  /\ rets[i].match_score = alone.match_score
                    /\ rets[i].content_score = alone.content_score
                    /\ rets[i].rank_score = alone.rank_score

\* how many elements of list are b
CountOf(list, b) == Cardinality({i \in 1..Len(list) : list[i] = b})

\* C29: the returned list is a permutation of the merged candidates whose
\* match score is at least MATCH_THRESHOLD: each of them appears as many
\* times as it was merged, nothing else appears, none is dropped for a low
\* content score, and candidates of the two providers that describe the same
\* book are both kept.
C29_ResultIsPermutationOfSurvivors ==
    Returned =>
        LET merged == g_results \o ol_results
            kept == {i \in 1..Len(merged) : merged[i].match_score >= MATCH_THRESHOLD}
        IN  /\ Len(result) = Cardinality(kept)
            /\ \A b \in Range(merged) \cup Range(result) :
                CountOf(result, b) =
                    IF b.match_score >= MATCH_THRESHOLD THEN CountOf(merged, b) ELSE 0

\* the returned list holds a Google and an Open Library candidate with the
\* same identifier and a candidate whose content score is 0, and a merged
\* candidate was filtered out
C29_Witness ==
    /\ Returned
    /\ Len(result) < Len(g_results) + Len(ol_results)
    /\ \E i, j \in 1..Len(result) :
        /\ result[i].source = "Google"
        /\ result[j].source = "OpenLibrary"
        /\ result[i].isbn # NoneVal
        /\ result[j].isbn # NoneVal
        /\ StripIsbn(result[i].isbn) = StripIsbn(result[j].isbn)
    /\ \E i \in 1..Len(result) : result[i].content_score = 0

====
